---- MODULE Spec2Model ----
(***************************************************************************)
(* Model of the JVM options merge scripts                                  *)
(*   src/packer/patch-jvm-options.py            (positional form)          *)
(*   src/packer/cassandra/patch-jvm-options.py  (flag form, unfinished)    *)
(*                                                                         *)
(* A string is a sequence of one-character strings.  A file is the         *)
(* sequence of lines Python's file iteration yields: every line keeps its  *)
(* terminating "\n", except possibly the last one.  The output file is the *)
(* character sequence the writes have produced so far.  The progress lines *)
(* printed to standard output are not part of the state.                   *)
(***************************************************************************)
EXTENDS Integers, Sequences, FiniteSets, TLC

VARIABLES
    script,       \* which of the two scripts runs: "positional" or "flag"
    args,         \* the flag form's command line, as argparse reads it
    catalog,      \* the versions catalog file (flag form)
    base,         \* flag form: the module variable `base`
    outputPath,   \* flag form: the module variable `output` (a path)
    patchFile,    \* the patch file: [exists, lines]
    baseFile,     \* the base file: [exists, lines]
    outFile,      \* the file at the output path: [exists, data]
    pc,           \* the statement the run is at
    status,       \* "running", "done" (fell off the end), "error" (uncaught
                  \* exception at pc), "exit" (sys.exit / argparse exit)
    err,          \* name of the uncaught exception, or "none"
    exitCode,     \* process exit code, -1 while running
    patch,        \* the dict `patch`, in insertion order
    option,       \* the module variable `option` (last JVMOption built)
    i,            \* position of the running for-loop in its iterable
    patchHandle,  \* state of the handle of `with open(patch) as patch_file`
    baseHandle,   \* state of the handle of `with open(base) as base_file`
    outHandle     \* state of the handle `output = open(..., "w")`

vars == <<script, args, catalog, base, outputPath, patchFile, baseFile, outFile, pc,
          status, err, exitCode, patch, option, i,
          patchHandle, baseHandle, outHandle>>

(***************************************************************************)
(* Bounds of the model.                                                    *)
(***************************************************************************)
MaxBaseLines == 2
MaxPatchLines == 2

NL == "\n"
NoOption == [exc |-> "unset", key |-> <<>>, sep |-> <<>>, value |-> <<>>]

(***************************************************************************)
(* String helpers (str methods used by the scripts).                       *)
(***************************************************************************)
Whitespace == {" ", NL}

Lower == {"a", "b", "c", "d", "e", "f", "g", "h", "i", "j", "k", "l", "m",
          "n", "o", "p", "q", "r", "s", "t", "u", "v", "w", "x", "y", "z"}

RECURSIVE LStrip(_)
LStrip(s) ==
    IF s # <<>> /\ Head(s) \in Whitespace THEN LStrip(Tail(s)) ELSE s

RECURSIVE RStrip(_)
RStrip(s) ==
    IF s # <<>> /\ s[Len(s)] \in Whitespace
    THEN RStrip(SubSeq(s, 1, Len(s) - 1))
    ELSE s

\* str.strip()
Strip(s) == RStrip(LStrip(s))

\* str.startswith(p)
StartsWith(s, p) == Len(s) >= Len(p) /\ SubSeq(s, 1, Len(p)) = p

\* c in s
Contains(s, c) == \E k \in 1..Len(s) : s[k] = c

\* index of the first c in s (s contains c)
FirstIndex(s, c) == CHOOSE k \in 1..Len(s) : s[k] = c /\ \A j \in 1..(k - 1) : s[j] # c

\* str.split(c): the pieces between the occurrences of c
RECURSIVE Split(_, _)
Split(s, c) ==
    IF ~Contains(s, c) THEN <<s>>
    ELSE <<SubSeq(s, 1, FirstIndex(s, c) - 1)>>
         \o Split(SubSeq(s, FirstIndex(s, c) + 1, Len(s)), c)

(***************************************************************************)
(* class JVMOption.  The result of the constructor is the object's fields, *)
(* or the exception the constructor raises (exc # "none").                 *)
(***************************************************************************)
XmPrefix == <<"-", "X", "m">>

\* a faulty variant of JVMOption: a "-Xm" line the pattern does not match
\* falls through to the bare-flag rule instead of raising
JVMOptionFallThrough(line) ==
    IF Contains(line, "=")
    THEN IF Len(Split(line, "=")) = 2
         THEN [exc |-> "none", key |-> Split(line, "=")[1], sep |-> <<"=">>,
               value |-> Split(line, "=")[2]]
         ELSE [exc |-> "ValueError", key |-> <<>>, sep |-> <<"=">>, value |-> <<>>]
    ELSE IF StartsWith(line, XmPrefix) /\ Len(line) >= 4 /\ line[4] \in Lower
    THEN [exc |-> "none", key |-> SubSeq(line, 1, 4), sep |-> <<>>,
          value |-> SubSeq(line, 5, Len(line))]
    ELSE [exc |-> "none", key |-> line, sep |-> <<>>, value |-> <<>>]

JVMOption(line) ==
    IF Contains(line, "=")
    THEN \* self.key, self.value = line.split("=")
         IF Len(Split(line, "=")) = 2
         THEN [exc |-> "none", key |-> Split(line, "=")[1], sep |-> <<"=">>,
               value |-> Split(line, "=")[2]]
         ELSE [exc |-> "ValueError", key |-> <<>>, sep |-> <<"=">>, value |-> <<>>]
    ELSE IF StartsWith(line, XmPrefix)
    THEN \* tmp = re.match("(-Xm[a-z])(.*)", line); tmp[1], tmp[2]
         IF Len(line) >= 4 /\ line[4] \in Lower
         THEN [exc |-> "none", key |-> SubSeq(line, 1, 4), sep |-> <<>>,
               value |-> SubSeq(line, 5, Len(line))]
         ELSE [exc |-> "TypeError", key |-> <<>>, sep |-> <<>>, value |-> <<>>]
    ELSE [exc |-> "none", key |-> line, sep |-> <<>>, value |-> <<>>]

\* a faulty variant of Repr: the separator is left out
ReprNoSep(o) == o.key \o o.value

\* JVMOption.__repr__
Repr(o) == o.key \o o.sep \o o.value

\* the test both loops apply to a raw line before parsing it
IsSkipped(line) == StartsWith(line, <<"#">>) \/ Strip(line) = <<>>

(***************************************************************************)
(* The dict `patch`: a sequence of options with distinct keys, in          *)
(* insertion order.                                                        *)
(***************************************************************************)
\* key in patch
DictHas(d, key) == \E k \in 1..Len(d) : d[k].key = key

\* patch[key]
DictGet(d, key) == d[CHOOSE k \in 1..Len(d) : d[k].key = key]

\* patch[o.key] = o : an existing key keeps its position
DictSet(d, o) ==
    IF DictHas(d, o.key)
    THEN [k \in 1..Len(d) |-> IF d[k].key = o.key THEN o ELSE d[k]]
    ELSE Append(d, o)

\* del patch[key]
DictDel(d, key) == SelectSeq(d, LAMBDA e : e.key # key)

(***************************************************************************)
(* Inputs.  Line texts are written without their terminator.               *)
(***************************************************************************)
Xms4G == <<"-", "X", "m", "s", "4", "G">>
Xms8G == <<"-", "X", "m", "s", "8", "G">>
Xm4G == <<"-", "X", "m", "4", "G">>                \* -Xm, no lowercase letter
DkV == <<"-", "D", "k", "=", "v">>
AgentLib == <<"-", "a", "=", "t", "=", "d">>       \* "=" twice, as -agentlib:jdwp=transport=dt_socket
FlightRecorder == <<"-", "X", "X", ":", "+", "F">>
Comment == <<"#", "c">>
IndentedComment == <<" ", "#", "c">>
Blank == <<" ">>

BaseTexts == {Xms4G, Xms8G, DkV, AgentLib, FlightRecorder, Comment, Blank}
PatchTexts == {Xms4G, Xms8G, Xm4G, AgentLib, IndentedComment}

\* the lines of a file holding the given texts, every line terminated
Terminated(texts) == [k \in 1..Len(texts) |-> texts[k] \o <<NL>>]

\* the same, the last line without its terminator
Unterminated(texts) ==
    [k \in 1..Len(texts) |-> IF k = Len(texts) THEN texts[k] ELSE texts[k] \o <<NL>>]

TextSeqs(texts, n) == UNION {[1..k -> texts] : k \in 0..n}

File(lines) == [exists |-> TRUE, lines |-> lines]
MissingFile == [exists |-> FALSE, lines |-> <<>>]

\* An option line is stripped and written back with a terminator, so only a
\* last line that is a comment or blank is also given without its terminator.
BaseFiles ==
    {MissingFile}
    \cup {File(Terminated(t)) : t \in TextSeqs(BaseTexts, MaxBaseLines)}
    \cup {File(Unterminated(t)) :
             t \in {u \in TextSeqs(BaseTexts, MaxBaseLines) :
                      u # <<>> /\ u[Len(u)] \in {Comment, Blank}}}

\* patch lines are skipped or stripped, so the last terminator has no effect
PatchFiles ==
    {MissingFile}
    \cup {File(Terminated(t)) : t \in TextSeqs(PatchTexts, MaxPatchLines)}

\* what the output path holds before the run
OldOutput == [exists |-> TRUE, data |-> <<"o", "l", "d", NL>>]
NoOutput == [exists |-> FALSE, data |-> <<>>]

\* the command line of the flag form: which options are given
ArgSets == [patch : BOOLEAN, base : BOOLEAN, output : BOOLEAN,
            version : {"none", "3.0", "4.0"}]
NoArgs == [patch |-> FALSE, base |-> FALSE, output |-> FALSE, version |-> "none"]

\* the catalog file: missing, empty (yaml.safe_load gives None), or a mapping
Catalogs == {[exists |-> FALSE, null |-> FALSE, versions |-> {}],
             [exists |-> TRUE, null |-> TRUE, versions |-> {}],
             [exists |-> TRUE, null |-> FALSE, versions |-> {"3.0", "3.11"}]}

\* data[version]["jvm"]
JvmPath(version) == "jvm.options-" \o version

Handles == {"unopened", "open", "closed"}

TypeOK ==
    /\ script \in {"positional", "flag"}
    /\ status \in {"running", "done", "error", "exit"}
    /\ exitCode \in {-1, 0, 1, 2}
    /\ patchHandle \in Handles /\ baseHandle \in Handles /\ outHandle \in Handles

InitCommon ==
    /\ outFile \in {NoOutput, OldOutput}
    /\ status = "running"
    /\ err = "none"
    /\ exitCode = -1
    /\ patch = <<>>
    /\ option = NoOption
    /\ i = 0
    /\ patchHandle = "unopened"
    /\ baseHandle = "unopened"
    /\ outHandle = "unopened"
    /\ base = "none"
    /\ outputPath = "none"

\* python patch-jvm-options.py <base> <patch> <output>
InitPositional ==
    /\ script = "positional"
    /\ args = NoArgs
    /\ catalog \in {c \in Catalogs : ~c.exists}
    /\ patchFile \in PatchFiles
    /\ baseFile \in BaseFiles
    /\ pc = "open_patch"
    /\ InitCommon

\* python patch-jvm-options.py -p <patch> [-b <base>] [-o <output> | -v <version>]
InitFlag ==
    /\ script = "flag"
    /\ args \in ArgSets
    /\ catalog \in Catalogs
    /\ patchFile = File(Terminated(<<Xms8G>>))
    /\ baseFile = File(Terminated(<<Xms4G>>))
    /\ pc = "parse_args"
    /\ InitCommon

Init == InitPositional \/ InitFlag

(***************************************************************************)
(* Steps shared by the actions.                                            *)
(***************************************************************************)
\* an uncaught exception ends the process with exit code 1
Raise(name) ==
    /\ status' = "error"
    /\ err' = name
    /\ exitCode' = 1

\* output.write(text)
Write(text) == outFile' = [outFile EXCEPT !.data = @ \o text]

FlagVars == <<script, args, catalog, base, outputPath>>
InputFiles == <<patchFile, baseFile>>

(***************************************************************************)
(* src/packer/patch-jvm-options.py                                         *)
(***************************************************************************)
\* patch = {} ; with open(sys.argv[2], "r") as patch_file:
OpenPatch ==
    /\ script = "positional" /\ status = "running" /\ pc = "open_patch"
    /\ IF patchFile.exists
       THEN /\ patchHandle' = "open"
            /\ i' = 1
            /\ pc' = "index"
            /\ UNCHANGED <<status, err, exitCode>>
       ELSE /\ Raise("FileNotFoundError")
            /\ UNCHANGED <<patchHandle, i, pc>>
    /\ patch' = <<>>
    /\ UNCHANGED <<FlagVars, InputFiles, outFile, option, baseHandle, outHandle>>

\* one iteration of `for line in patch_file`
IndexPatchLine ==
    /\ script = "positional" /\ status = "running" /\ pc = "index"
    /\ i <= Len(patchFile.lines)
    /\ LET line == patchFile.lines[i]
           o == JVMOption(Strip(line))
       IN IF IsSkipped(line)
          THEN /\ i' = i + 1
               /\ UNCHANGED <<status, err, exitCode, option, patch, patchHandle>>
          ELSE IF o.exc # "none"
          THEN \* the exception leaves the with block, which closes the file
               /\ Raise(o.exc)
               /\ patchHandle' = "closed"
               /\ UNCHANGED <<i, option, patch>>
          ELSE /\ option' = o
               /\ patch' = DictSet(patch, o)
               /\ i' = i + 1
               /\ UNCHANGED <<status, err, exitCode, patchHandle>>
    /\ UNCHANGED <<FlagVars, InputFiles, outFile, pc, baseHandle, outHandle>>

\* the patch file is exhausted: the with block ends
ClosePatch ==
    /\ script = "positional" /\ status = "running" /\ pc = "index"
    /\ i > Len(patchFile.lines)
    /\ patchHandle' = "closed"
    /\ pc' = "open_output"
    /\ UNCHANGED <<FlagVars, InputFiles, outFile, status, err, exitCode, patch,
                   option, i, baseHandle, outHandle>>

\* output = open(sys.argv[3], "w") : creates or truncates the file
OpenOutput ==
    /\ script = "positional" /\ status = "running" /\ pc = "open_output"
    /\ outHandle' = "open"
    /\ outFile' = [exists |-> TRUE, data |-> <<>>]
    /\ pc' = "open_base"
    /\ UNCHANGED <<FlagVars, InputFiles, status, err, exitCode, patch, option, i,
                   patchHandle, baseHandle>>

\* with open(sys.argv[1], "r") as base_file:
OpenBase ==
    /\ script = "positional" /\ status = "running" /\ pc = "open_base"
    /\ IF baseFile.exists
       THEN /\ baseHandle' = "open"
            /\ i' = 1
            /\ pc' = "merge"
            /\ UNCHANGED <<status, err, exitCode>>
       ELSE /\ Raise("FileNotFoundError")
            /\ UNCHANGED <<baseHandle, i, pc>>
    /\ UNCHANGED <<FlagVars, InputFiles, outFile, patch, option, patchHandle,
                   outHandle>>

\* one iteration of `for line in base_file`
MergeBaseLine ==
    /\ script = "positional" /\ status = "running" /\ pc = "merge"
    /\ i <= Len(baseFile.lines)
    /\ LET line == baseFile.lines[i]
           o == JVMOption(Strip(line))
       IN IF IsSkipped(line)
          THEN /\ Write(line)
               /\ i' = i + 1
               /\ UNCHANGED <<status, err, exitCode, option, patch, baseHandle>>
          ELSE IF o.exc # "none"
          THEN \* the with block closes base_file; nothing closes output
               /\ Raise(o.exc)
               /\ baseHandle' = "closed"
               /\ UNCHANGED <<i, option, patch, outFile>>
          ELSE /\ option' = o
               /\ IF DictHas(patch, o.key)
                  THEN /\ Write(Repr(DictGet(patch, o.key)) \o <<NL>>)
                       /\ patch' = DictDel(patch, o.key)
                  ELSE /\ Write(Repr(o) \o <<NL>>)
                       /\ patch' = patch
               /\ i' = i + 1
               /\ UNCHANGED <<status, err, exitCode, baseHandle>>
    /\ UNCHANGED <<FlagVars, InputFiles, pc, patchHandle, outHandle>>

\* the base file is exhausted: the with block ends
CloseBase ==
    /\ script = "positional" /\ status = "running" /\ pc = "merge"
    /\ i > Len(baseFile.lines)
    /\ baseHandle' = "closed"
    /\ i' = 1
    /\ pc' = "append"
    /\ UNCHANGED <<FlagVars, InputFiles, outFile, status, err, exitCode, patch,
                   option, patchHandle, outHandle>>

\* one iteration of `for key in patch`
AppendPatchEntry ==
    /\ script = "positional" /\ status = "running" /\ pc = "append"
    /\ i <= Len(patch)
    /\ Write(Repr(DictGet(patch, patch[i].key)) \o <<NL>>)
    /\ i' = i + 1
    /\ UNCHANGED <<FlagVars, InputFiles, pc, status, err, exitCode, patch, option,
                   patchHandle, baseHandle, outHandle>>

\* output.close() ; the script ends
CloseOutput ==
    /\ script = "positional" /\ status = "running" /\ pc = "append"
    /\ i > Len(patch)
    /\ outHandle' = "closed"
    /\ status' = "done"
    /\ exitCode' = 0
    /\ pc' = "end"
    /\ UNCHANGED <<FlagVars, InputFiles, outFile, err, patch, option, i,
                   patchHandle, baseHandle>>

(***************************************************************************)
(* src/packer/cassandra/patch-jvm-options.py                               *)
(***************************************************************************)
\* args = parser.parse_args() ; patch = args.patch ; base = args.base
ParseArgs ==
    /\ script = "flag" /\ status = "running" /\ pc = "parse_args"
    /\ IF ~args.patch \/ (args.output /\ args.version # "none")
       THEN \* -p is required; -o and -v are mutually exclusive
            /\ status' = "exit"
            /\ exitCode' = 2
            /\ UNCHANGED <<pc, base>>
       ELSE /\ base' = IF args.base THEN "base.options" ELSE "none"
            /\ pc' = "version"
            /\ UNCHANGED <<status, exitCode>>
    /\ UNCHANGED <<script, args, catalog, outputPath, InputFiles, outFile, err,
                   patch, option, i, patchHandle, baseHandle, outHandle>>

\* if args.version: look the version up in the catalog
LookupVersion ==
    /\ script = "flag" /\ status = "running" /\ pc = "version"
    /\ IF args.version = "none"
       THEN /\ pc' = "print_args"
            /\ UNCHANGED <<status, err, exitCode, base, outputPath>>
       ELSE IF ~catalog.exists
       THEN /\ Raise("FileNotFoundError")
            /\ UNCHANGED <<pc, base, outputPath>>
       ELSE IF catalog.null
       THEN \* args.version in None
            /\ Raise("TypeError")
            /\ UNCHANGED <<pc, base, outputPath>>
       ELSE IF args.version \in catalog.versions
       THEN /\ base' = JvmPath(args.version)
            /\ outputPath' = JvmPath(args.version)
            /\ pc' = "print_args"
            /\ UNCHANGED <<status, err, exitCode>>
       ELSE \* print("Version not found ...") ; sys.exit(1)
            /\ status' = "exit"
            /\ exitCode' = 1
            /\ UNCHANGED <<pc, err, base, outputPath>>
    /\ UNCHANGED <<script, args, catalog, InputFiles, outFile, patch, option, i,
                   patchHandle, baseHandle, outHandle>>

\* print(args) ; sys.exit(1) : the statements after it never run
PrintArgsAndExit ==
    /\ script = "flag" /\ status = "running" /\ pc = "print_args"
    /\ status' = "exit"
    /\ exitCode' = 1
    /\ UNCHANGED <<FlagVars, InputFiles, outFile, pc, err, patch, option, i,
                   patchHandle, baseHandle, outHandle>>

Next ==
    \/ OpenPatch
    \/ IndexPatchLine
    \/ ClosePatch
    \/ OpenOutput
    \/ OpenBase
    \/ MergeBaseLine
    \/ CloseBase
    \/ AppendPatchEntry
    \/ CloseOutput
    \/ ParseArgs
    \/ LookupVersion
    \/ PrintArgsAndExit

Spec == Init /\ [][Next]_vars

(***************************************************************************)
(* Vocabulary of the properties.                                           *)
(***************************************************************************)
\* a line without its terminator
Chomp(line) ==
    IF line # <<>> /\ line[Len(line)] = NL THEN SubSeq(line, 1, Len(line) - 1) ELSE line

\* the lines of a text, without their terminators
RECURSIVE SplitLines(_)
SplitLines(data) ==
    IF data = <<>> THEN <<>>
    ELSE IF Contains(data, NL)
    THEN <<SubSeq(data, 1, FirstIndex(data, NL) - 1)>>
         \o SplitLines(SubSeq(data, FirstIndex(data, NL) + 1, Len(data)))
    ELSE <<data>>

OutLines == SplitLines(outFile.data)

\* the merge ran to its end
Completed == script = "positional" /\ status = "done"

Parsed(line) == JVMOption(Strip(line))

\* the positions of the lines of a file that the scripts parse as options
OptionIdx(file) == {k \in 1..Len(file.lines) : ~IsSkipped(file.lines[k])}

KeysOf(file) == {Parsed(file.lines[k]).key : k \in OptionIdx(file)}

\* the positions of the patch lines with the given key
PatchIdxWithKey(key) ==
    {k \in OptionIdx(patchFile) : Parsed(patchFile.lines[k]).key = key}

\* the last patch line with the given key
LastPatchLine(key) ==
    patchFile.lines[CHOOSE k \in PatchIdxWithKey(key) :
                        \A n \in PatchIdxWithKey(key) : n <= k]

\* the positions of the output lines that carry the given key
OutIdxWithKey(key) ==
    {j \in 1..Len(OutLines) : Parsed(OutLines[j]).key = key}

\* a comment or blank line: its first non-blank content is "#", or it has none
IsCommentOrBlank(line) == Strip(line) = <<>> \/ Head(Strip(line)) = "#"

\* a "-Xm" line that rule 2 of the parser does not match
IsMalformedXm(text) ==
    /\ ~Contains(text, "=")
    /\ StartsWith(text, XmPrefix)
    /\ ~(Len(text) >= 4 /\ text[4] \in Lower)

RECURSIVE Ascending(_)
Ascending(S) ==
    IF S = {} THEN <<>>
    ELSE LET m == CHOOSE x \in S : \A y \in S : x <= y
         IN <<m>> \o Ascending(S \ {m})

(***************************************************************************)
(* Properties.                                                             *)
(***************************************************************************)
\* C1 (override correctness): after a completed merge, every key that occurs
\* in both the base and the patch file is carried by exactly one output line,
\* and that line is the patch's (last) line for the key, not the base's.
C1_OverrideCorrectness ==
    Completed =>
        \A key \in KeysOf(baseFile) \cap KeysOf(patchFile) :
            /\ Cardinality(OutIdxWithKey(key)) = 1
            /\ \A j \in OutIdxWithKey(key) : OutLines[j] = Strip(LastPatchLine(key))

\* the patch lines a completed merge has to append: the last line of every
\* key that no base line has, in the order of the patch file
AddedIdx ==
    {k \in OptionIdx(patchFile) :
        /\ Parsed(patchFile.lines[k]).key \notin KeysOf(baseFile)
        /\ \A n \in PatchIdxWithKey(Parsed(patchFile.lines[k]).key) : n <= k}

\* C2 (addition): after a completed merge the output consists of one line per
\* base line followed by one line of its own for every key that occurs only
\* in the patch file, in the order of the patch file.
C2_Addition ==
    Completed =>
        /\ Len(OutLines) = Len(baseFile.lines) + Cardinality(AddedIdx)
        /\ \A n \in 1..Cardinality(AddedIdx) :
              OutLines[Len(baseFile.lines) + n]
                  = Strip(patchFile.lines[Ascending(AddedIdx)[n]])

\* C3 (preservation): after a completed merge the i-th output line is derived
\* from the i-th base line, for every base line: a comment or blank line
\* begins the i-th output line, an option line gives the i-th output line its
\* key, and an option whose key occurs only in the base file is written with
\* the base's own text (its key, separator and value).
C3_Preservation ==
    Completed =>
        /\ Len(OutLines) >= Len(baseFile.lines)
        /\ \A n \in 1..Len(baseFile.lines) :
              IF IsSkipped(baseFile.lines[n])
              THEN StartsWith(OutLines[n], Chomp(baseFile.lines[n]))
              ELSE /\ ~IsSkipped(OutLines[n])
                   /\ Parsed(OutLines[n]).key = Parsed(baseFile.lines[n]).key
                   /\ Parsed(baseFile.lines[n]).key \notin KeysOf(patchFile)
                        => OutLines[n] = Strip(baseFile.lines[n])

\* a completed merge of a base file that has an option only it has, after an
\* option the patch overrides, with a patch that also adds a key
C3_Witness ==
    /\ Completed
    /\ \E m, n \in OptionIdx(baseFile) :
          /\ m < n
          /\ Parsed(baseFile.lines[m]).key \in KeysOf(patchFile)
          /\ Parsed(baseFile.lines[n]).key \notin KeysOf(patchFile)
          /\ Contains(baseFile.lines[n], "=")
    /\ AddedIdx # {}

\* C4 (comment/blank passthrough): no comment or blank line of the patch file
\* becomes a key of the patch mapping or a line of the output, and after a
\* completed merge every comment or blank line of the base file is the output
\* line at the same position, unchanged.  A comment may have blanks before "#".
C4_Passthrough ==
    script = "positional" =>
        /\ \A n \in 1..Len(patch) : ~IsCommentOrBlank(patch[n].key)
        /\ Completed =>
              /\ \A n \in 1..Len(baseFile.lines) :
                    IsCommentOrBlank(baseFile.lines[n]) =>
                        /\ n <= Len(OutLines)
                        /\ OutLines[n] = Chomp(baseFile.lines[n])
              /\ \A j \in 1..Len(OutLines) :
                    j > Len(baseFile.lines) => ~IsCommentOrBlank(OutLines[j])

\* C5 (self-merge): merging a file with itself as the patch completes, and
\* the output lines are the file's lines, in order and number, each option
\* line re-serialized (trimmed) and nothing appended.
C5_SelfMerge ==
    (script = "positional" /\ status # "running"
        /\ baseFile.exists /\ patchFile = baseFile) =>
        /\ status = "done"
        /\ OutLines = [n \in 1..Len(baseFile.lines) |->
                          IF IsSkipped(baseFile.lines[n])
                          THEN Chomp(baseFile.lines[n])
                          ELSE Strip(baseFile.lines[n])]

\* the option the constructor built from the text: its serialization is the
\* text, and a text with "=" is split on the first "=" only
RoundTrips(o, text) ==
    /\ o.key \o o.sep \o o.value = text
    /\ Contains(text, "=") =>
          /\ o.key = SubSeq(text, 1, FirstIndex(text, "=") - 1)
          /\ o.sep = <<"=">>
          /\ o.value = SubSeq(text, FirstIndex(text, "=") + 1, Len(text))

\* C6 (parse/serialize round trip): the constructor succeeds on every trimmed
\* option line the scripts hand it, and key + separator + value is that line;
\* a line with "=" is split on its first "=".  (A "-Xm" line without a
\* lowercase fourth character, which rule 2 may reject, is left out.)
C6_RoundTrip ==
    script = "positional" =>
        /\ (status = "error" /\ pc = "index")
              => IsMalformedXm(Strip(patchFile.lines[i]))
        /\ (status = "error" /\ pc = "merge")
              => IsMalformedXm(Strip(baseFile.lines[i]))
        /\ (status = "running" /\ pc = "index" /\ i > 1
                /\ ~IsSkipped(patchFile.lines[i - 1]))
              => RoundTrips(option, Strip(patchFile.lines[i - 1]))
        /\ (status = "running" /\ pc = "merge" /\ i > 1
                /\ ~IsSkipped(baseFile.lines[i - 1]))
              => RoundTrips(option, Strip(baseFile.lines[i - 1]))

\* C7 (last writer wins within the patch file): once the patch file is
\* indexed the mapping holds exactly one entry per key of the patch file, the
\* one of the last line with that key; after a completed merge every output
\* line with a key the patch file repeats has the value of that last line.
C7_LastWriterWins ==
    script = "positional" =>
        /\ (status = "running" /\ pc = "open_output") =>
              \A key \in KeysOf(patchFile) :
                  /\ Cardinality({n \in 1..Len(patch) : patch[n].key = key}) = 1
                  /\ \A n \in 1..Len(patch) :
                        patch[n].key = key =>
                            patch[n].key \o patch[n].sep \o patch[n].value
                                = Strip(LastPatchLine(key))
        /\ Completed =>
              \A key \in KeysOf(patchFile) :
                  Cardinality(PatchIdxWithKey(key)) > 1 =>
                      \A j \in OutIdxWithKey(key) :
                          Parsed(OutLines[j]).value = Parsed(LastPatchLine(key)).value

\* C8 (release of file handles): when a run has ended, on whatever path, no
\* handle it opened is still open.
C8_HandlesReleased ==
    status # "running" =>
        /\ patchHandle # "open"
        /\ baseHandle # "open"
        /\ outHandle # "open"

\* the inputs are readable and every option line of them parses
InputsOK ==
    /\ patchFile.exists
    /\ baseFile.exists
    /\ \A k \in OptionIdx(patchFile) : Parsed(patchFile.lines[k]).exc = "none"
    /\ \A k \in OptionIdx(baseFile) : Parsed(baseFile.lines[k]).exc = "none"

\* the run has what it needs to succeed; for the flag form: the patch, a
\* version that the catalog holds or else a base and an output path
RunSucceeds ==
    /\ InputsOK
    /\ script = "flag" =>
          /\ args.patch
          /\ IF args.version # "none"
             THEN catalog.exists /\ ~catalog.null /\ args.version \in catalog.versions
             ELSE args.base /\ args.output

\* C9 (exit codes, both forms): a run that has ended exits with 0 exactly
\* when it succeeds and with 1 otherwise.  (A command line that argparse
\* rejects, exit code 2, is left out.)
C9_ExitCodes ==
    (status # "running" /\ exitCode # 2) =>
        /\ exitCode = 0 <=> RunSucceeds
        /\ ~RunSucceeds => exitCode = 1

\* C10 (a failure while indexing the patch is fatal before any output is
\* touched): as long as the run is opening or indexing the patch file, also
\* when it stops there on an error, no step changes the file at the output
\* path or opens it; a missing patch file and a "-Xm" line without a
\* lowercase fourth character each end the run there with an error and exit
\* code 1.  The flag form never touches the output.
C10_PatchFailureBeforeOutput ==
    [][/\ (script = "flag" \/ pc' \in {"open_patch", "index"}) =>
             outFile' = outFile /\ outHandle' = "unopened"
       /\ (script = "positional" /\ status = "running" /\ pc = "open_patch"
             /\ ~patchFile.exists) =>
             status' = "error" /\ exitCode' = 1 /\ pc' = pc
       /\ (script = "positional" /\ status = "running" /\ pc = "index"
             /\ i <= Len(patchFile.lines)
             /\ ~IsSkipped(patchFile.lines[i])
             /\ IsMalformedXm(Strip(patchFile.lines[i]))) =>
             status' = "error" /\ exitCode' = 1 /\ pc' = pc
      ]_vars

\* the run stopped on the second patch line, a malformed "-Xm" line, and the
\* previous content of the output file is still there
C10_Witness ==
    /\ script = "positional"
    /\ status = "error" /\ err = "TypeError" /\ pc = "index" /\ i = 2
    /\ IsMalformedXm(Strip(patchFile.lines[i]))
    /\ outFile = OldOutput
    /\ outHandle = "unopened"

====
